---- MODULE Spec2Model ----
(***************************************************************************)
(* A model of Phaser.Pointer (src/src/input/Pointer.js): the press / move  *)
(* / release / reset / update life cycle of a pointer slot, the derived    *)
(* gestures (tap, double tap, hold) and the two-pass hit-test resolver     *)
(* processInteractiveObjects with its over / out / update notifications.   *)
(*                                                                         *)
(* Every method of the prototype is an operator from a "world" (the        *)
(* mutable state: the slots, the shared input manager fields, the          *)
(* candidates' scratch flags and the notifications emitted so far) to the  *)
(* world after the call, so that a method that calls another one (start    *)
(* calls move, move calls processInteractiveObjects) is the composition    *)
(* of the operators.  One action per public method applies its operator.   *)
(***************************************************************************)
EXTENDS Integers, Sequences, FiniteSets, TLC

\* ------------------------------------------------------------------ bounds
MaxTime == 3          \* game.time.now ranges over 0 .. MaxTime
MaxPointers == 1      \* cap of input.currentPointers (it is unbounded in the code)
MaxTouches == 1       \* cap of totalTouches (it is unbounded in the code)
MaxPriority == 1      \* priorityID ranges over 0 .. MaxPriority
MaxRenderOrder == 1   \* renderOrderID ranges over 0 .. MaxRenderOrder

\* ------------------------------------------------- tunables of game.input
tapRate == 1
doubleTapRate == 2
holdRate == 3
recordRate == 1
recordLimit == 2

\* --------------------------------------------------------- program values
null == -1
undefined == -2
MAX_SAFE_INTEGER == 1000
MAX_VALUE == 1000000

MOUSE_OVERRIDES_TOUCH == "MOUSE_OVERRIDES_TOUCH"
TOUCH_OVERRIDES_MOUSE == "TOUCH_OVERRIDES_MOUSE"
MOUSE_TOUCH_COMBINE == "MOUSE_TOUCH_COMBINE"
Policies == {MOUSE_OVERRIDES_TOUCH, TOUCH_OVERRIDES_MOUSE, MOUSE_TOUCH_COMBINE}

\* Slot 0 is the mouse (id === 0), slot 1 a touch contact.
Slots == {0, 1}

VARIABLES
    ptr,                \* ptr[p]: the fields of the Pointer object of slot p
    input,              \* game.input: currentPointers, activePointer, x, y, position, circle
    multiInputOverride, \* game.input.multiInputOverride
    pollLocked,         \* game.input.pollLocked
    paused,             \* game.paused
    mouseLocked,        \* game.input.mouse.locked
    recordPointerHistory, \* game.input.recordPointerHistory
    moveCallbacks,      \* game.input.moveCallbacks: the registered observers, in registration order
    items,              \* game.input.interactiveItems: the candidates in traversal order
    cand,               \* cand[c]: priorityID, renderOrderID, pixelPerfect, draggable, bounds, pixels
    draggedBy,          \* draggedBy[c]: the slot dragging candidate c, or null (isDragged = not null)
    checked,            \* checked[c]: the scratch flag of candidate c
    now,                \* game.time.now
    pages,              \* the page positions the drivers report
    driven,             \* the slots the drivers feed
    op,                 \* the last call: its name and slot
    log,                \* what the last call emitted, in order
    seen                \* seen[p]: when slot p's last tap signal was heard, whether
                        \* reset was its last press-or-reset call, and whether a hold
                        \* signal was heard since that call (observations only)

vars == <<ptr, input, multiInputOverride, pollLocked, paused, mouseLocked,
          recordPointerHistory, moveCallbacks, items, cand, draggedBy, checked,
          now, pages, driven, op, log, seen>>

\* --------------------------------------------------------------- helpers
Candidates == DOMAIN cand

\* One emitted notification, signal or call: ev names it, id is the candidate
\* (or the slot, or the observer) it goes to, flag its boolean argument.
Event(ev, id, flag) == [ev |-> ev, id |-> id, flag |-> flag]

Emit(w, ev, id, flag) == [w EXCEPT !.log = Append(@, Event(ev, id, flag))]

\* The positions of ev-events in a log, and the log restricted to some events.
Positions(l, evs) == {i \in 1..Len(l) : l[i].ev \in evs}

Count(l, evs) == Cardinality(Positions(l, evs))

CountFor(l, evs, id) == Cardinality({i \in Positions(l, evs) : l[i].id = id})

\* The scene transform: stage.offset and input.scale.
stageOffset == <<1, 1>>
inputScale == <<2, 2>>

\* game.scale.bounds.contains(pageX, pageY): the canvas covers pages 1 .. 3.
boundsContains(px, py) == px \in 1..3 /\ py \in 1..3

\* The DOM events the drivers hand in.
DomEvent(px, py, id, pid, hasButton) ==
    [identifier |-> id, pointerId |-> pid, target |-> 1,
     hasButton |-> hasButton, button |-> IF hasButton THEN 0 ELSE undefined,
     clientX |-> px, clientY |-> py, pageX |-> px, pageY |-> py,
     screenX |-> px + 10, screenY |-> py + 10, movementX |-> 1, movementY |-> 0]

Pages == {<<1, 1>>, <<2, 1>>, <<4, 1>>}

\* A mouse event carries a button and no identifier, a touch an identifier.
EventsOf(p) ==
    IF p = 0 THEN {DomEvent(pg[1], pg[2], undefined, 0, TRUE) : pg \in pages}
    ELSE {DomEvent(pg[1], pg[2], 7, 5, FALSE) : pg \in pages}

\* The scene position a page position maps to (the body of move, lines 408-409).
Scene(pg) == <<(pg[1] - stageOffset[1]) * inputScale[1], (pg[2] - stageOffset[2]) * inputScale[2]>>


\* ------------------------------------------------- the Pointer constructor
NewPointer(id) ==
    [id |-> id, identifier |-> 0, pointerId |-> null, target |-> null, button |-> null,
     holdSent |-> FALSE, history |-> <<>>, nextDrop |-> 0, stateReset |-> FALSE,
     withinGame |-> FALSE,
     clientX |-> -1, clientY |-> -1, pageX |-> -1, pageY |-> -1,
     screenX |-> -1, screenY |-> -1,
     rawMovementX |-> 0, rawMovementY |-> 0, movementX |-> 0, movementY |-> 0,
     x |-> -1, y |-> -1,
     isMouse |-> (id = 0), isDown |-> FALSE, isUp |-> TRUE,
     timeDown |-> 0, timeUp |-> 0, previousTapTime |-> 0, totalTouches |-> 0,
     msSinceLastClick |-> MAX_VALUE,
     targetObject |-> null, active |-> FALSE, dirty |-> FALSE,
     position |-> <<0, 0>>, positionDown |-> <<0, 0>>, positionUp |-> <<0, 0>>,
     circle |-> <<0, 0>>,
     highestRenderOrderID |-> MAX_SAFE_INTEGER, highestRenderObject |-> null,
     highestInputPriorityID |-> -1]

\* A duration getter that measures from the last release (timeUp for the
\* timeDown of line 733).
durationSinceUp(pt, t) == IF pt.isUp THEN -1 ELSE t - pt.timeUp

\* The duration getter.
duration(pt, t) == IF pt.isUp THEN -1 ELSE t - pt.timeDown

\* The condition under which a slot may speak for the input manager: the
\* test repeated in start, update, move and stop.
MayDispatch(w) ==
    \/ multiInputOverride = MOUSE_OVERRIDES_TOUCH
    \/ multiInputOverride = MOUSE_TOUCH_COMBINE
    \/ (multiInputOverride = TOUCH_OVERRIDES_MOUSE /\ w.input.currentPointers = 0)

\* ------------------------------------- the candidates (Phaser.InputHandler)
\* validForInput: can the candidate still beat the best found so far?  A
\* pass that excludes the exact-requiring candidates rejects them outright.
validForInput(c, highestID, highestRenderID, includePixelPerfect) ==
    IF ~includePixelPerfect /\ cand[c].pixelPerfect THEN FALSE
    ELSE \/ cand[c].priorityID > highestID
         \/ (cand[c].priorityID = highestID /\ cand[c].renderOrderID < highestRenderID)

\* The cheap test: the pointer's position lies in the candidate's bounds.
\* The exact test, run when the call is not a fast one and the candidate
\* asks for it: the position also lies on one of its opaque pixels.
hitTest(c, pt, fastTest) ==
    /\ pt.position \in cand[c].bounds
    /\ (~fastTest /\ cand[c].pixelPerfect) => pt.position \in cand[c].pixels

checkPointerDown(c, pt, fastTest) == hitTest(c, pt, fastTest)

checkPointerOver(c, pt, fastTest) == hitTest(c, pt, fastTest)

\* The test a call of checkPointerDown / checkPointerOver amounts to.
IsExactTest(c, fastTest) == ~fastTest /\ cand[c].pixelPerfect

pointerOverHandler(w, c, p) == Emit(w, "pointerOver", c, FALSE)

pointerOutHandler(w, c, p) == Emit(w, "pointerOut", c, FALSE)

\* A draggable candidate that is touched starts being dragged by the slot.
touchedHandler(w, c, p) ==
    LET w1 == Emit(w, "touched", c, FALSE)
    IN IF cand[c].draggable /\ w1.draggedBy[c] = null
       THEN [w1 EXCEPT !.draggedBy[c] = p] ELSE w1

\* A release ends the drag the slot was performing.
releasedHandler(w, c, p) ==
    LET w1 == Emit(w, "released", c, FALSE)
    IN IF w1.draggedBy[c] = p THEN [w1 EXCEPT !.draggedBy[c] = null] ELSE w1

\* The candidate's own update; keep is what it returns (false: terminate).
handlerUpdate(w, c, p, keep) ==
    LET w1 == Emit(w, "update", c, keep)
    IN IF ~keep /\ w1.draggedBy[c] = p THEN [w1 EXCEPT !.draggedBy[c] = null] ELSE w1

isDragged(w, c) == w.draggedBy[c] # null

\* The assignment this.targetObject = v of slot p.
SetTarget(w, p, v) ==
    Emit([w EXCEPT !.ptr[p].targetObject = v], "assign", v, p = 0)


\* ------------------------------------------- processInteractiveObjects
\* Visit without line 488 / 508: a hit leaves the render order of the best
\* so far as it was.
VisitKeepsRenderOrder(w, p, c, fromClick, exactPass) ==
    LET pt == w.ptr[p]
        valid == /\ (exactPass => ~w.checked[c])
                 /\ validForInput(c, pt.highestInputPriorityID, pt.highestRenderOrderID, exactPass)
        w1 == IF valid /\ ~exactPass THEN [w EXCEPT !.checked[c] = TRUE] ELSE w
        w2 == IF valid
              THEN Emit(w1, IF IsExactTest(c, ~exactPass) THEN "exactTest" ELSE "cheapTest", c, fromClick)
              ELSE w1
        hit == IF fromClick THEN checkPointerDown(c, pt, ~exactPass)
               ELSE checkPointerOver(c, pt, ~exactPass)
    IN IF valid /\ hit
       THEN [w2 EXCEPT !.ptr[p].highestInputPriorityID = cand[c].priorityID,
                       !.ptr[p].highestRenderObject = c]
       ELSE w2

\* Visit that flags a candidate as checked only when its test succeeds (line
\* 482 moved under the test of line 484).
VisitChecksHitsOnly(w, p, c, fromClick, exactPass) ==
    LET pt == w.ptr[p]
        valid == /\ (exactPass => ~w.checked[c])
                 /\ validForInput(c, pt.highestInputPriorityID, pt.highestRenderOrderID, exactPass)
        w2 == IF valid
              THEN Emit(w, IF IsExactTest(c, ~exactPass) THEN "exactTest" ELSE "cheapTest", c, fromClick)
              ELSE w
        hit == IF fromClick THEN checkPointerDown(c, pt, ~exactPass)
               ELSE checkPointerOver(c, pt, ~exactPass)
    IN IF valid /\ hit
       THEN [w2 EXCEPT !.checked[c] = IF exactPass THEN @ ELSE TRUE,
                       !.ptr[p].highestRenderOrderID = cand[c].renderOrderID,
                       !.ptr[p].highestInputPriorityID = cand[c].priorityID,
                       !.ptr[p].highestRenderObject = c]
       ELSE w2

\* One visit of a sweep: the candidate items[i] against the best so far.
\* The first sweep (exactPass = FALSE) takes the candidates that need no
\* exact test, flags them checked and runs the fast test; the second one
\* (exactPass = TRUE) takes the candidates not yet checked and runs the
\* full test.
Visit(w, p, c, fromClick, exactPass) ==
    LET pt == w.ptr[p]
        valid == /\ (exactPass => ~w.checked[c])
                 /\ validForInput(c, pt.highestInputPriorityID, pt.highestRenderOrderID, exactPass)
        w1 == IF valid /\ ~exactPass THEN [w EXCEPT !.checked[c] = TRUE] ELSE w
        w2 == IF valid
              THEN Emit(w1, IF IsExactTest(c, ~exactPass) THEN "exactTest" ELSE "cheapTest", c, fromClick)
              ELSE w1
        hit == IF fromClick THEN checkPointerDown(c, pt, ~exactPass)
               ELSE checkPointerOver(c, pt, ~exactPass)
    IN IF valid /\ hit
       THEN [w2 EXCEPT !.ptr[p].highestRenderOrderID = cand[c].renderOrderID,
                       !.ptr[p].highestInputPriorityID = cand[c].priorityID,
                       !.ptr[p].highestRenderObject = c]
       ELSE w2

\* The do ... while loop over interactiveItems.first / .next, from node i on.
RECURSIVE Sweep(_, _, _, _, _)
Sweep(w, p, i, fromClick, exactPass) ==
    IF i > Len(items) THEN w
    ELSE Sweep(Visit(w, p, items[i], fromClick, exactPass), p, i + 1, fromClick, exactPass)

\* ProcessTop that drops a lingering target without telling it (lines
\* 521-525 without the pointerOut).
ProcessTopSilentExit(w, p, keep) ==
    LET best == w.ptr[p].highestRenderObject
        old == w.ptr[p].targetObject
    IN IF best = null
       THEN IF old # null THEN SetTarget(w, p, null) ELSE w
       ELSE IF old = null
            THEN pointerOverHandler(SetTarget(w, p, best), best, p)
            ELSE IF old = best
                 THEN LET w1 == handlerUpdate(w, best, p, keep)
                      IN IF ~keep THEN SetTarget(w1, p, null) ELSE w1
                 ELSE pointerOverHandler(SetTarget(pointerOutHandler(w, old, p), p, best), best, p)

\* ProcessTop that greets the new target before it takes leave of the old
\* one (lines 549-553 in the other order).
ProcessTopOverBeforeOut(w, p, keep) ==
    LET best == w.ptr[p].highestRenderObject
        old == w.ptr[p].targetObject
    IN IF best = null
       THEN IF old # null
            THEN SetTarget(pointerOutHandler(w, old, p), p, null)
            ELSE w
       ELSE IF old = null
            THEN pointerOverHandler(SetTarget(w, p, best), best, p)
            ELSE IF old = best
                 THEN LET w1 == handlerUpdate(w, best, p, keep)
                      IN IF ~keep THEN SetTarget(w1, p, null) ELSE w1
                 ELSE pointerOutHandler(pointerOverHandler(SetTarget(w, p, best), best, p), old, p)

\* Lines 517-556: what the top-most item (if any) means for the target.
\* keep is what the unchanged target's update returns.
ProcessTop(w, p, keep) ==
    LET best == w.ptr[p].highestRenderObject
        old == w.ptr[p].targetObject
    IN IF best = null
       THEN IF old # null
            THEN SetTarget(pointerOutHandler(w, old, p), p, null)
            ELSE w
       ELSE IF old = null
            THEN pointerOverHandler(SetTarget(w, p, best), best, p)
            ELSE IF old = best
                 THEN LET w1 == handlerUpdate(w, best, p, keep)
                      IN IF ~keep THEN SetTarget(w1, p, null) ELSE w1
                 ELSE pointerOverHandler(SetTarget(pointerOutHandler(w, old, p), p, best), best, p)

\* processInteractiveObjects with the two sweeps in the other order: the
\* exact tests run before the cheap ones have set their floor.
processExactFirst(w, p, fromClick, keep) ==
    LET w0 == Emit([w EXCEPT !.checked = [c \in Candidates |-> FALSE],
                             !.ptr[p].highestRenderOrderID = MAX_SAFE_INTEGER,
                             !.ptr[p].highestRenderObject = null,
                             !.ptr[p].highestInputPriorityID = -1],
                   "resolve", p, fromClick)
        w1 == Sweep(w0, p, 1, fromClick, TRUE)
        w2 == Sweep(w1, p, 1, fromClick, FALSE)
    IN Emit(ProcessTop(w2, p, keep), "resolved", p, fromClick)

processInteractiveObjects(w, p, fromClick, keep) ==
    LET w0 == Emit([w EXCEPT !.checked = [c \in Candidates |-> FALSE],
                             !.ptr[p].highestRenderOrderID = MAX_SAFE_INTEGER,
                             !.ptr[p].highestRenderObject = null,
                             !.ptr[p].highestInputPriorityID = -1],
                   "resolve", p, fromClick)
        w1 == Sweep(w0, p, 1, fromClick, FALSE)
        w2 == Sweep(w1, p, 1, fromClick, TRUE)
    IN Emit(ProcessTop(w2, p, keep), "resolved", p, fromClick)


\* ------------------------------------------------------------------ move
\* Lines 385-425: the coordinates, the hit-probe circle, the input
\* manager's mirror of the active pointer, withinGame.
MoveFields(w, p, e, fromClick) ==
    LET pt == w.ptr[p]
        locked == pt.isMouse /\ mouseLocked /\ ~fromClick
        sc == Scene(<<e.pageX, e.pageY>>)
        pt1 == [pt EXCEPT
                  !.button = IF e.hasButton THEN e.button ELSE @,
                  !.clientX = e.clientX, !.clientY = e.clientY,
                  !.pageX = e.pageX, !.pageY = e.pageY,
                  !.screenX = e.screenX, !.screenY = e.screenY,
                  !.rawMovementX = IF locked THEN e.movementX ELSE @,
                  !.rawMovementY = IF locked THEN e.movementY ELSE @,
                  !.movementX = IF locked THEN @ + e.movementX ELSE @,
                  !.movementY = IF locked THEN @ + e.movementY ELSE @,
                  !.x = sc[1], !.y = sc[2],
                  !.position = sc, !.circle = sc,
                  !.withinGame = boundsContains(e.pageX, e.pageY)]
        in1 == IF MayDispatch(w)
               THEN [w.input EXCEPT !.activePointer = p, !.x = sc[1], !.y = sc[2],
                                    !.position = sc, !.circle = sc]
               ELSE w.input
    IN [w EXCEPT !.ptr[p] = pt1, !.input = in1]

\* The call of move observer cb with (pointer, x, y, fromClick), line 437.
CallbackCall(w, p, cb, fromClick) ==
    [ev |-> "moveCallback", id |-> cb, flag |-> fromClick,
     pointer |-> p, x |-> w.ptr[p].x, y |-> w.ptr[p].y]

\* The move observers called first registered first (the loop of lines
\* 433-438 counting up).
RECURSIVE MoveCallbacksForward(_, _, _, _)
MoveCallbacksForward(w, p, i, fromClick) ==
    IF i = 0 THEN w
    ELSE LET cb == moveCallbacks[Len(moveCallbacks) - i + 1]
         IN MoveCallbacksForward([w EXCEPT !.log = Append(@, CallbackCall(w, p, cb, fromClick))],
                                 p, i - 1, fromClick)

\* Lines 433-438: the move observers, last registered first.
RECURSIVE MoveCallbacks(_, _, _, _)
MoveCallbacks(w, p, i, fromClick) ==
    IF i = 0 THEN w
    ELSE MoveCallbacks([w EXCEPT !.log = Append(@, CallbackCall(w, p, moveCallbacks[i], fromClick))],
                       p, i - 1, fromClick)

\* Lines 440-451: the dragged target's update, or the resolver.
MoveTarget(w, p, fromClick, keep) ==
    LET t == w.ptr[p].targetObject
    IN IF t # null /\ isDragged(w, t)
       THEN LET w1 == handlerUpdate(w, t, p, keep)
            IN IF ~keep THEN SetTarget(w1, p, null) ELSE w1
       ELSE IF Len(items) > 0
            THEN processInteractiveObjects(w, p, fromClick, keep)
            ELSE w

\* move that looks at pollLocked after it has taken the event's coordinates
\* (lines 378-381 moved below line 425).
moveLocksLate(w, p, e, fromClick, keep) ==
    LET w1 == MoveFields(w, p, e, fromClick)
    IN IF pollLocked \/ paused THEN w1
       ELSE MoveTarget(MoveCallbacks(w1, p, Len(moveCallbacks), fromClick), p, fromClick, keep)

\* move that looks at game.paused after it has called the observers (lines
\* 428-431 moved below line 438).
movePausesLate(w, p, e, fromClick, keep) ==
    IF pollLocked THEN w
    ELSE LET w1 == MoveCallbacks(MoveFields(w, p, e, fromClick), p, Len(moveCallbacks), fromClick)
         IN IF paused THEN w1
            ELSE MoveTarget(w1, p, fromClick, keep)

move(w, p, e, fromClick, keep) ==
    IF pollLocked THEN w
    ELSE LET w1 == MoveFields(w, p, e, fromClick)
         IN IF paused THEN w1
            ELSE MoveTarget(MoveCallbacks(w1, p, Len(moveCallbacks), fromClick), p, fromClick, keep)

\* ----------------------------------------------------------------- leave
leave(w, p, e, keep) ==
    move([w EXCEPT !.ptr[p].withinGame = FALSE], p, e, FALSE, keep)

\* ----------------------------------------------------------------- start
\* StartFields that leaves isUp as it was (line 281 dropped).
StartFieldsLeavesUp(w, p, e) ==
    [w EXCEPT !.ptr[p] =
        [@ EXCEPT !.pointerId = IF e.pointerId # 0 THEN e.pointerId ELSE @,
                  !.identifier = e.identifier,
                  !.target = e.target,
                  !.button = IF e.hasButton THEN e.button ELSE @,
                  !.history = <<>>,
                  !.active = TRUE, !.withinGame = TRUE,
                  !.isDown = TRUE, !.dirty = FALSE,
                  !.msSinceLastClick = now - w.ptr[p].timeDown,
                  !.timeDown = now,
                  !.holdSent = FALSE]]

\* Lines 264-287: the identifiers, the flags and the press time.
StartFields(w, p, e) ==
    [w EXCEPT !.ptr[p] =
        [@ EXCEPT !.pointerId = IF e.pointerId # 0 THEN e.pointerId ELSE @,
                  !.identifier = e.identifier,
                  !.target = e.target,
                  !.button = IF e.hasButton THEN e.button ELSE @,
                  !.history = <<>>,
                  !.active = TRUE, !.withinGame = TRUE,
                  !.isDown = TRUE, !.isUp = FALSE, !.dirty = FALSE,
                  !.msSinceLastClick = now - w.ptr[p].timeDown,
                  !.timeDown = now,
                  !.holdSent = FALSE]]

\* Lines 293-302: positionDown, and the input manager's onDown.
StartDispatch(w, p) ==
    LET pt == w.ptr[p]
        w1 == [w EXCEPT !.ptr[p].positionDown = <<pt.x, pt.y>>]
    IN IF MayDispatch(w1)
       THEN Emit([w1 EXCEPT !.input.x = pt.x, !.input.y = pt.y,
                            !.input.position = <<pt.x, pt.y>>],
                 "onDown", p, FALSE)
       ELSE w1

\* StartCount that counts the touches of the touch slots only (line 305
\* moved under the test of line 307).
StartCountTouchOnly(w, p) ==
    LET w1 == [w EXCEPT !.ptr[p].stateReset = FALSE,
                        !.ptr[p].totalTouches = IF w.ptr[p].isMouse THEN @ ELSE @ + 1,
                        !.input.currentPointers = IF w.ptr[p].isMouse THEN @ ELSE @ + 1]
        t == w1.ptr[p].targetObject
    IN IF t # null THEN touchedHandler(w1, t, p) ELSE w1

\* Lines 304-315: the counters and the touched notification.
StartCount(w, p) ==
    LET w1 == [w EXCEPT !.ptr[p].stateReset = FALSE,
                        !.ptr[p].totalTouches = @ + 1,
                        !.input.currentPointers = IF w.ptr[p].isMouse THEN @ ELSE @ + 1]
        t == w1.ptr[p].targetObject
    IN IF t # null THEN touchedHandler(w1, t, p) ELSE w1

\* start that tells the target it comes with, before its move has resolved
\* the target of the press (lines 312-315 moved above line 290).
startTouchesFirst(w, p, e, keep) ==
    LET w0 == StartFields(w, p, e)
        t == w0.ptr[p].targetObject
        w1 == IF t # null THEN touchedHandler(w0, t, p) ELSE w0
        w2 == StartDispatch(move(w1, p, e, TRUE, keep), p)
    IN [w2 EXCEPT !.ptr[p].stateReset = FALSE,
                  !.ptr[p].totalTouches = @ + 1,
                  !.input.currentPointers = IF w2.ptr[p].isMouse THEN @ ELSE @ + 1]

start(w, p, e, keep) ==
    StartCount(StartDispatch(move(StartFields(w, p, e), p, e, TRUE, keep), p), p)


\* ---------------------------------------------------------------- update
\* Lines 330-338: a dirty pointer polls the candidates again.
UpdateDirty(w, p, keep) ==
    IF w.ptr[p].dirty
    THEN LET w1 == IF Len(items) > 0 THEN processInteractiveObjects(w, p, TRUE, keep) ELSE w
         IN [w1 EXCEPT !.ptr[p].dirty = FALSE]
    ELSE w

\* Lines 340-348: the hold signal.
UpdateHold(w, p) ==
    IF w.ptr[p].holdSent = FALSE /\ duration(w.ptr[p], now) >= holdRate
    THEN LET w1 == IF MayDispatch(w) THEN Emit(w, "onHold", p, FALSE) ELSE w
         IN [w1 EXCEPT !.ptr[p].holdSent = TRUE]
    ELSE w

\* UpdateHistory that makes room by dropping the sample it has just taken
\* (pop for the shift of line 362).
UpdateHistoryDropsNewest(w, p) ==
    IF recordPointerHistory /\ now >= w.ptr[p].nextDrop
    THEN LET h == Append(w.ptr[p].history, w.ptr[p].position)
         IN [w EXCEPT !.ptr[p].nextDrop = now + recordRate,
                      !.ptr[p].history = IF Len(h) > recordLimit
                                         THEN SubSeq(h, 1, Len(h) - 1) ELSE h]
    ELSE w

\* Lines 350-364: the history of positions.
UpdateHistory(w, p) ==
    IF recordPointerHistory /\ now >= w.ptr[p].nextDrop
    THEN LET h == Append(w.ptr[p].history, w.ptr[p].position)
         IN [w EXCEPT !.ptr[p].nextDrop = now + recordRate,
                      !.ptr[p].history = IF Len(h) > recordLimit THEN Tail(h) ELSE h]
    ELSE w

update(w, p, keep) ==
    IF w.ptr[p].active
    THEN UpdateHistory(UpdateHold(UpdateDirty(w, p, keep), p), p)
    ELSE w

\* ------------------------------------------------------------------ stop
\* StopDispatch with the double-tap window closed at its end (<= for <).
StopDispatchInclusive(w, p) ==
    LET pt == w.ptr[p]
    IN IF MayDispatch(w)
       THEN LET w1 == Emit(w, "onUp", p, FALSE)
            IN IF duration(pt, now) >= 0 /\ duration(pt, now) <= tapRate
               THEN [Emit(w1, "onTap", p, pt.timeUp - pt.previousTapTime <= doubleTapRate)
                        EXCEPT !.ptr[p].previousTapTime = pt.timeUp]
               ELSE w1
       ELSE w

\* Lines 591-612: the input manager's onUp and the tap signals.
StopDispatch(w, p) ==
    LET pt == w.ptr[p]
    IN IF MayDispatch(w)
       THEN LET w1 == Emit(w, "onUp", p, FALSE)
            IN IF duration(pt, now) >= 0 /\ duration(pt, now) <= tapRate
               THEN [Emit(w1, "onTap", p, pt.timeUp - pt.previousTapTime < doubleTapRate)
                        EXCEPT !.ptr[p].previousTapTime = pt.timeUp]
               ELSE w1
       ELSE w

\* A release that tells only the slot's target (line 633 narrowed to the
\* target).
ReleaseTargetOnly(w, p, i) ==
    IF w.ptr[p].targetObject # null
    THEN releasedHandler(w, w.ptr[p].targetObject, p)
    ELSE w

\* interactiveItems.callAll('_releasedHandler', this), from node i on.
RECURSIVE CallAllReleased(_, _, _)
CallAllReleased(w, p, i) ==
    IF i > Len(items) THEN w
    ELSE CallAllReleased(releasedHandler(w, items[i], p), p, i + 1)

\* StopFields that leaves every slot active, as it does the mouse (lines
\* 614-618 dropped).
StopFieldsStaysActive(w, p) ==
    LET pt == w.ptr[p]
    IN [w EXCEPT !.ptr[p] =
           [pt EXCEPT !.withinGame = FALSE,
                      !.isDown = FALSE, !.isUp = TRUE,
                      !.pointerId = null, !.identifier = null,
                      !.positionUp = <<pt.x, pt.y>>],
                 !.input.currentPointers = IF pt.isMouse = FALSE THEN @ - 1 ELSE @]

\* Lines 614-635: the slot goes up.
StopFields(w, p) ==
    LET pt == w.ptr[p]
    IN [w EXCEPT !.ptr[p] =
           [pt EXCEPT !.active = IF pt.id > 0 THEN FALSE ELSE @,
                      !.withinGame = FALSE,
                      !.isDown = FALSE, !.isUp = TRUE,
                      !.pointerId = null, !.identifier = null,
                      !.positionUp = <<pt.x, pt.y>>],
                 !.input.currentPointers = IF pt.isMouse = FALSE THEN @ - 1 ELSE @]

\* stop without the guard of lines 583-587.
stopUnguarded(w, p) ==
    LET w1 == [w EXCEPT !.ptr[p].timeUp = now]
        w2 == CallAllReleased(StopFields(StopDispatch(w1, p), p), p, 1)
    IN SetTarget(w2, p, null)

stop(w, p) ==
    IF w.ptr[p].stateReset
    THEN Emit(w, "preventDefault", p, FALSE)
    ELSE LET w1 == [w EXCEPT !.ptr[p].timeUp = now]
             w2 == CallAllReleased(StopFields(StopDispatch(w1, p), p), p, 1)
         IN SetTarget(w2, p, null)

\* ----------------------------------------------------------------- reset
\* reset that tells every registered candidate, as stop does (line 633 in
\* place of lines 695-698).
resetBroadcasts(w, p) ==
    LET pt == w.ptr[p]
        w1 == [w EXCEPT !.ptr[p] =
                  [pt EXCEPT !.active = IF pt.isMouse = FALSE THEN FALSE ELSE @,
                             !.pointerId = null, !.identifier = null,
                             !.dirty = FALSE,
                             !.isDown = FALSE, !.isUp = TRUE,
                             !.totalTouches = 0,
                             !.holdSent = FALSE,
                             !.history = <<>>,
                             !.stateReset = TRUE]]
    IN SetTarget(CallAllReleased(w1, p, 1), p, null)

\* reset that drops the target without telling it (lines 694-697 dropped).
resetForgetsTarget(w, p) ==
    LET pt == w.ptr[p]
        w1 == [w EXCEPT !.ptr[p] =
                  [pt EXCEPT !.active = IF pt.isMouse = FALSE THEN FALSE ELSE @,
                             !.pointerId = null, !.identifier = null,
                             !.dirty = FALSE,
                             !.isDown = FALSE, !.isUp = TRUE,
                             !.totalTouches = 0,
                             !.holdSent = FALSE,
                             !.history = <<>>,
                             !.stateReset = TRUE]]
    IN SetTarget(w1, p, null)

reset(w, p) ==
    LET pt == w.ptr[p]
        w1 == [w EXCEPT !.ptr[p] =
                  [pt EXCEPT !.active = IF pt.isMouse = FALSE THEN FALSE ELSE @,
                             !.pointerId = null, !.identifier = null,
                             !.dirty = FALSE,
                             !.isDown = FALSE, !.isUp = TRUE,
                             !.totalTouches = 0,
                             !.holdSent = FALSE,
                             !.history = <<>>,
                             !.stateReset = TRUE]]
        w2 == IF pt.targetObject # null THEN releasedHandler(w1, pt.targetObject, p) ELSE w1
    IN SetTarget(w2, p, null)


\* --------------------------------------------------------------- actions
\* The world a call starts from, and the state a call leaves.
World == [ptr |-> ptr, input |-> input, draggedBy |-> draggedBy, checked |-> checked,
          log |-> <<>>]

Call(name, p) == [name |-> name, p |-> p]

\* What an observer of slot p notes of a call: when it last heard a tap
\* signal, whether the slot was reset and not pressed since, and whether it
\* heard a hold signal since the slot was last pressed or reset.
Observed(l, call) ==
    LET p == call.p
    IN [seen EXCEPT ![p] = [lastTap |-> IF CountFor(l, {"onTap"}, p) > 0 THEN now
                                        ELSE seen[p].lastTap,
                            afterReset |-> IF call.name = "reset" THEN TRUE
                                           ELSE IF call.name = "start" THEN FALSE
                                           ELSE seen[p].afterReset,
                            held |-> IF call.name \in {"start", "reset"} THEN FALSE
                                     ELSE IF CountFor(l, {"onHold"}, p) > 0 THEN TRUE
                                     ELSE seen[p].held]]

Leaves(w, call) ==
    /\ ptr' = w.ptr
    /\ input' = w.input
    /\ draggedBy' = w.draggedBy
    /\ checked' = w.checked
    /\ log' = w.log
    /\ op' = call
    /\ seen' = Observed(w.log, call)
    /\ UNCHANGED <<multiInputOverride, pollLocked, paused, mouseLocked,
                   recordPointerHistory, moveCallbacks, items, cand, now, pages, driven>>

\* What the candidate's update may return in a call whose outcome is w when
\* it returns true: either value if the call reaches an update, and nothing
\* to choose otherwise.
Returns(w) == IF Count(w.log, {"update"}) > 0 THEN BOOLEAN ELSE {TRUE}

Start(p) ==
    /\ ptr[p].totalTouches < MaxTouches
    /\ input.currentPointers < MaxPointers
    /\ \E e \in EventsOf(p) :
          LET w == start(World, p, e, TRUE)
          IN \E keep \in Returns(w) :
                Leaves(IF keep THEN w ELSE start(World, p, e, FALSE), Call("start", p))

Move(p) ==
    \E e \in EventsOf(p) :
       LET w == move(World, p, e, FALSE, TRUE)
       IN \E keep \in Returns(w) :
             Leaves(IF keep THEN w ELSE move(World, p, e, FALSE, FALSE), Call("move", p))

\* The drivers report a leave with a position off the canvas.
Leave(p) ==
    \E e \in {f \in EventsOf(p) : ~boundsContains(f.pageX, f.pageY)} :
       LET w == leave(World, p, e, TRUE)
       IN \E keep \in Returns(w) :
             Leaves(IF keep THEN w ELSE leave(World, p, e, FALSE), Call("leave", p))

Stop(p) ==
    /\ input.currentPointers > -MaxPointers
    /\ Leaves(stop(World, p), Call("stop", p))

Update(p) ==
    LET w == update(World, p, TRUE)
    IN \E keep \in Returns(w) :
          Leaves(IF keep THEN w ELSE update(World, p, FALSE), Call("update", p))

Reset(p) == Leaves(reset(World, p), Call("reset", p))

\* processInteractiveObjects called on its own (it is a protected method).
Resolve(p) ==
    \E fromClick \in BOOLEAN :
       LET w == processInteractiveObjects(World, p, fromClick, TRUE)
       IN \E keep \in Returns(w) :
             Leaves(IF keep THEN w ELSE processInteractiveObjects(World, p, fromClick, FALSE),
                    Call("resolve", p))

\* A collaborator marks the pointer dirty (the public dirty property).
MarkDirty(p) ==
    /\ ~ptr[p].dirty
    /\ Leaves([World EXCEPT !.ptr[p].dirty = TRUE], Call("dirty", p))

\* The clock game.time.now advances.
Tick ==
    /\ now < MaxTime
    /\ now' = now + 1
    /\ op' = Call("tick", null)
    /\ log' = <<>>
    /\ UNCHANGED <<ptr, input, multiInputOverride, pollLocked, paused, mouseLocked,
                   recordPointerHistory, moveCallbacks, items, cand, draggedBy, checked,
                   pages, driven, seen>>

\* The game is paused or resumed (game.paused, read on line 428).
Pause ==
    /\ paused' = ~paused
    /\ op' = Call("pause", null)
    /\ log' = <<>>
    /\ UNCHANGED <<ptr, input, multiInputOverride, pollLocked, mouseLocked,
                   recordPointerHistory, moveCallbacks, items, cand, draggedBy, checked,
                   now, pages, driven, seen>>

\* Polling is locked or unlocked (game.input.pollLocked, read on line 378).
PollLock ==
    /\ pollLocked' = ~pollLocked
    /\ op' = Call("pollLock", null)
    /\ log' = <<>>
    /\ UNCHANGED <<ptr, input, multiInputOverride, paused, mouseLocked,
                   recordPointerHistory, moveCallbacks, items, cand, draggedBy, checked,
                   now, pages, driven, seen>>

\* ------------------------------------------------------------------ Init
\* The state after the input manager has built its pointers.
Built ==
    /\ ptr = [p \in Slots |-> NewPointer(p)]
    /\ input = [currentPointers |-> 0, activePointer |-> null, x |-> 0, y |-> 0,
                position |-> <<0, 0>>, circle |-> <<0, 0>>]
    /\ now = 0
    /\ op = Call("new", null)
    /\ log = <<>>
    /\ seen = [p \in Slots |-> [lastTap |-> null, afterReset |-> FALSE, held |-> FALSE]]

\* The scene of the life-cycle specification: A (1) and B (2) need no exact
\* test, A can be dragged; C (3) needs the exact test and has priority.
SceneCand ==
    (1 :> [priorityID |-> 0, renderOrderID |-> 1, pixelPerfect |-> FALSE, draggable |-> TRUE,
           bounds |-> {<<0, 0>>}, pixels |-> {}]) @@
    (2 :> [priorityID |-> 0, renderOrderID |-> 0, pixelPerfect |-> FALSE, draggable |-> FALSE,
           bounds |-> {<<2, 0>>}, pixels |-> {}]) @@
    (3 :> [priorityID |-> 1, renderOrderID |-> 2, pixelPerfect |-> TRUE, draggable |-> FALSE,
           bounds |-> {<<2, 0>>, <<4, 0>>, <<6, 0>>}, pixels |-> {<<4, 0>>}])

\* The candidates' scratch state before any call.
Fresh ==
    /\ draggedBy = [c \in DOMAIN cand |-> null]
    /\ checked = [c \in DOMAIN cand |-> FALSE]

\* The life-cycle specification: one driven slot over the scene, the clock
\* standing still.
Init ==
    /\ Built
    /\ multiInputOverride = MOUSE_TOUCH_COMBINE
    /\ pollLocked = FALSE
    /\ paused = FALSE
    /\ mouseLocked = FALSE
    /\ recordPointerHistory = FALSE
    /\ moveCallbacks = <<1, 2>>
    /\ items = <<1, 2, 3>>
    /\ cand = SceneCand
    /\ Fresh
    /\ pages = Pages
    /\ driven \in {{0}, {1}}

Next ==
    \/ \E p \in driven : Start(p)
    \/ \E p \in driven : Move(p)
    \/ \E p \in driven : Leave(p)
    \/ \E p \in driven : Stop(p)
    \/ \E p \in driven : Update(p)
    \/ \E p \in driven : Reset(p)
    \/ \E p \in driven : MarkDirty(p)

Spec == Init /\ [][Next]_vars

\* The gesture specification: a slot, the mouse or a touch, pressed and
\* released as the clock advances, under every override policy, over an
\* empty scene.
InitGesture ==
    /\ Built
    /\ multiInputOverride \in Policies
    /\ pollLocked = FALSE
    /\ paused = FALSE
    /\ mouseLocked = FALSE
    /\ recordPointerHistory = FALSE
    /\ moveCallbacks = <<>>
    /\ items = <<>>
    /\ cand = <<>>
    /\ Fresh
    /\ pages = {<<1, 1>>}
    /\ driven \in {{0}, {1}}

NextGesture ==
    \/ Tick
    \/ \E p \in driven : Start(p)
    \/ \E p \in driven : Stop(p)
    \/ \E p \in driven : Reset(p)

SpecGesture == InitGesture /\ [][NextGesture]_vars


\* The hold-and-history specification: a slot over A and B with one page
\* to press on, the clock advancing and the history of positions recorded.
InitLife ==
    /\ Built
    /\ multiInputOverride = MOUSE_TOUCH_COMBINE
    /\ pollLocked = FALSE
    /\ paused = FALSE
    /\ mouseLocked = FALSE
    /\ recordPointerHistory = TRUE
    /\ moveCallbacks = <<>>
    /\ items = <<1, 2>>
    /\ cand = [c \in {1, 2} |-> SceneCand[c]]
    /\ Fresh
    /\ pages = {<<1, 1>>}
    /\ driven \in {{0}, {1}}

NextLife ==
    \/ Tick
    \/ \E p \in driven : Start(p)
    \/ \E p \in driven : Stop(p)
    \/ \E p \in driven : Update(p)
    \/ \E p \in driven : Reset(p)
    \/ \E p \in driven : MarkDirty(p)

SpecLife == InitLife /\ [][NextLife]_vars

\* The frame specification: a slot over A and B, on the canvas over A or
\* off it over nothing, while the game is paused and resumed and polling
\* is locked and unlocked.
InitFrame ==
    /\ Built
    /\ multiInputOverride = MOUSE_TOUCH_COMBINE
    /\ pollLocked = FALSE
    /\ paused = FALSE
    /\ mouseLocked = FALSE
    /\ recordPointerHistory = FALSE
    /\ moveCallbacks = <<1>>
    /\ items = <<1, 2>>
    /\ cand = [c \in {1, 2} |-> SceneCand[c]]
    /\ Fresh
    /\ pages = {<<1, 1>>, <<4, 1>>}
    /\ driven \in {{0}, {1}}

NextFrame ==
    \/ Pause
    \/ PollLock
    \/ \E p \in driven : Start(p)
    \/ \E p \in driven : Move(p)
    \/ \E p \in driven : Leave(p)
    \/ \E p \in driven : Stop(p)
    \/ \E p \in driven : Update(p)
    \/ \E p \in driven : Reset(p)

SpecFrame == InitFrame /\ [][NextFrame]_vars

\* The recording specification: a slot pressed, moved between two points,
\* updated and reset over an empty scene as the clock advances, the history
\* of positions recorded.
InitRecord ==
    /\ Built
    /\ multiInputOverride = MOUSE_TOUCH_COMBINE
    /\ pollLocked = FALSE
    /\ paused = FALSE
    /\ mouseLocked = FALSE
    /\ recordPointerHistory = TRUE
    /\ moveCallbacks = <<>>
    /\ items = <<>>
    /\ cand = <<>>
    /\ Fresh
    /\ pages = {<<1, 1>>, <<2, 1>>}
    /\ driven \in {{0}, {1}}

NextRecord ==
    \/ Tick
    \/ \E p \in driven : Start(p)
    \/ \E p \in driven : Move(p)
    \/ \E p \in driven : Update(p)
    \/ \E p \in driven : Reset(p)

SpecRecord == InitRecord /\ [][NextRecord]_vars

\* The hold specification: a slot pressed, held, updated, released and
\* reset as the clock advances, under every override policy, over an empty
\* scene.
InitHold ==
    /\ Built
    /\ multiInputOverride \in Policies
    /\ pollLocked = FALSE
    /\ paused = FALSE
    /\ mouseLocked = FALSE
    /\ recordPointerHistory = FALSE
    /\ moveCallbacks = <<>>
    /\ items = <<>>
    /\ cand = <<>>
    /\ Fresh
    /\ pages = {<<1, 1>>}
    /\ driven \in {{0}, {1}}

NextHold ==
    \/ Tick
    \/ \E p \in driven : Start(p)
    \/ \E p \in driven : Stop(p)
    \/ \E p \in driven : Update(p)
    \/ \E p \in driven : Reset(p)

SpecHold == InitHold /\ [][NextHold]_vars

\* The resolver's specification: three candidates in traversal order 1, 2, 3
\* with any attributes (pairwise distinct priority / render order pairs) and
\* any outcome of their tests under the pointer, resolved again and again.
ResolveIds == 1..3

Under == <<0, 0>>

CandChoices ==
    {[priorityID |-> pr, renderOrderID |-> ro, pixelPerfect |-> h[1], draggable |-> FALSE,
      bounds |-> h[2], pixels |-> h[3]] :
        pr \in 0..MaxPriority, ro \in 0..MaxRenderOrder,
        h \in {<<FALSE, {}, {}>>, <<FALSE, {Under}, {}>>,
               <<TRUE, {Under}, {}>>, <<TRUE, {Under}, {Under}>>}}

DistinctPairs(cs) ==
    \A c, d \in DOMAIN cs :
       c # d => <<cs[c].priorityID, cs[c].renderOrderID>> # <<cs[d].priorityID, cs[d].renderOrderID>>

InitResolve ==
    /\ Built
    /\ multiInputOverride = MOUSE_TOUCH_COMBINE
    /\ pollLocked = FALSE
    /\ paused = FALSE
    /\ mouseLocked = FALSE
    /\ recordPointerHistory = FALSE
    /\ moveCallbacks = <<>>
    /\ items = <<1, 2, 3>>
    /\ cand \in {cs \in [ResolveIds -> CandChoices] : DistinctPairs(cs)}
    /\ Fresh
    /\ pages = {}
    /\ driven = {1}

NextResolve == \E p \in driven : Resolve(p)

SpecResolve == InitResolve /\ [][NextResolve]_vars


\* ================================================================ claims
\* The last call was method name of slot p.
Did(name, p) == op.name = name /\ op.p = p

\* The events of a log that are tap signals of slot p.
TapsOf(l, p) == {i \in Positions(l, {"onTap"}) : l[i].id = p}

\* A release of slot p that stop does not suppress, seen from the state
\* before it.
Processed(p) == ~ptr[p].stateReset

\* ------------------------------------------------------------------- C1
\* C1: every processed release of a slot that is down and was pressed at
\* most tapRate ago dispatches a tap signal, for the mouse and for a touch,
\* under every override policy and every value of currentPointers.
C1_QuickReleaseTaps ==
    [][\A p \in Slots :
          (Did("stop", p)' /\ Processed(p) /\ ptr[p].isDown
              /\ duration(ptr[p], now) >= 0 /\ duration(ptr[p], now) <= tapRate)
          => Cardinality(TapsOf(log', p)) = 1]_vars

\* ------------------------------------------------------------------- C2
\* C2: a declared tap is a double tap exactly when timeUp - previousTapTime
\* < doubleTapRate at that release; previousTapTime changes only in a release
\* that declares a tap, to that release's timeUp; and a tap released less
\* than doubleTapRate after the release of the slot's previous tap is a
\* double tap, one released later than that a single tap.
C2_DoubleTapRule ==
    [][\A p \in Slots :
          LET heard == TapsOf(log', p)
          IN /\ \A i \in heard :
                   /\ log'[i].flag = (ptr'[p].timeUp - ptr[p].previousTapTime < doubleTapRate)
                   /\ seen[p].lastTap # null
                        => log'[i].flag = (now - seen[p].lastTap < doubleTapRate)
             /\ ptr'[p].previousTapTime # ptr[p].previousTapTime
                   => /\ Did("stop", p)'
                      /\ heard # {}
                      /\ ptr'[p].previousTapTime = ptr'[p].timeUp
             /\ (Did("stop", p)' /\ heard # {}) => ptr'[p].previousTapTime = now]_vars

\* A second tap is reported as a double tap: the window of the first tap of
\* a slot opened at time 0 is over, so an earlier tap was declared.
C2_Witness ==
    \E p \in Slots :
       /\ Did("stop", p)
       /\ now >= doubleTapRate
       /\ \E i \in TapsOf(log, p) : log[i].flag


\* ------------------------------------------------------------------- C3
\* The last call ran the resolver for slot p.
Resolved(p) == \E i \in Positions(log, {"resolve"}) : log[i].id = p

\* The candidates whose applicable test succeeds under the pointer of slot p:
\* the cheap test (the bounds) for an ordinary candidate, the exact one (the
\* bounds and the pixels) for a candidate that requires it.
Hits(p) ==
    {c \in Candidates :
        /\ ptr[p].position \in cand[c].bounds
        /\ cand[c].pixelPerfect => ptr[p].position \in cand[c].pixels}

\* c wins against d: the higher priority, and among equal priorities the
\* lower render order.
Beats(c, d) ==
    \/ cand[c].priorityID > cand[d].priorityID
    \/ (cand[c].priorityID = cand[d].priorityID /\ cand[c].renderOrderID < cand[d].renderOrderID)

Winner(H) == IF H = {} THEN null ELSE CHOOSE c \in H : \A d \in H \ {c} : Beats(c, d)

\* C3: over candidates with pairwise distinct (priority, render order) pairs,
\* in any traversal order, the best candidate a resolve call chooses is the
\* one of highest priority among those whose applicable test succeeds, equal
\* priorities broken by render order, and none when no test succeeds.
C3_BestIsWinner ==
    \A p \in Slots :
       (Resolved(p) /\ DistinctPairs(cand)) => ptr[p].highestRenderObject = Winner(Hits(p))

\* Two candidates of equal priority are hit, and the one chosen comes later
\* in the traversal than the one it beats.
C3_Witness ==
    \E p \in Slots :
       /\ Resolved(p)
       /\ \E i, j \in 1..Len(items) :
             /\ i < j
             /\ {items[i], items[j]} \subseteq Hits(p)
             /\ cand[items[i]].priorityID = cand[items[j]].priorityID
             /\ ptr[p].highestRenderObject = items[j]

\* ------------------------------------------------------------------- C4
\* C4: when a candidate that needs no exact test passes its cheap test, an
\* exact-requiring candidate that cannot beat it (lower priority, or equal
\* priority and a losing render order) has no exact test run on it in that
\* resolve call, wherever the two sit in the traversal.
C4_ExactSkippedUnderFloor ==
    \A p \in Slots :
       Resolved(p) =>
          \A c, e \in Candidates :
             (/\ ~cand[c].pixelPerfect
              /\ ptr[p].position \in cand[c].bounds
              /\ cand[e].pixelPerfect
              /\ ~Beats(e, c))
             => CountFor(log, {"exactTest"}, e) = 0

\* The exact-requiring candidate comes first in the traversal and its exact
\* test would succeed; the cheap candidate that sets the floor comes later.
C4_Witness ==
    \E p \in Slots :
       /\ Resolved(p)
       /\ \E i, j \in 1..Len(items) :
             /\ i < j
             /\ cand[items[i]].pixelPerfect
             /\ items[i] \in Hits(p)
             /\ ~cand[items[j]].pixelPerfect
             /\ items[j] \in Hits(p)
             /\ ~Beats(items[i], items[j])
             /\ CountFor(log, {"exactTest"}, items[i]) = 0


\* ------------------------------------------------------------------- C5
\* The notifications a candidate can receive.
Notifications == {"pointerOver", "pointerOut", "update", "touched", "released"}

IsNotification(e) == e.ev \in Notifications

\* What log l holds between the start and the end of its resolve call.
ResolveSegment(l) ==
    LET i == CHOOSE k \in Positions(l, {"resolve"}) : TRUE
        j == CHOOSE k \in Positions(l, {"resolved"}) : TRUE
    IN SubSeq(l, i + 1, j - 1)

\* C5: a resolve call emits exactly one of: nothing (no best, no previous
\* target), pointerOver on the best (no previous target), pointerOut on the
\* previous target (no best), pointerOut on the previous target then
\* pointerOver on the best (they differ), one update on the unchanged target;
\* and it assigns targetObject at most once.
C5_OneOutcomePerResolve ==
    [][\A p \in Slots :
          (op'.p = p /\ Resolved(p)') =>
             LET seg == ResolveSegment(log')
                 notes == SelectSeq(seg, IsNotification)
                 old == ptr[p].targetObject
                 best == ptr'[p].highestRenderObject
             IN /\ Count(log', {"resolve"}) = 1
                /\ Count(log', {"resolved"}) = 1
                /\ Count(seg, {"assign"}) <= 1
                /\ (best = null /\ old = null) => notes = <<>>
                /\ (best # null /\ old = null) => notes = <<Event("pointerOver", best, FALSE)>>
                /\ (best = null /\ old # null) => notes = <<Event("pointerOut", old, FALSE)>>
                /\ (best # null /\ old # null /\ best # old)
                      => notes = <<Event("pointerOut", old, FALSE), Event("pointerOver", best, FALSE)>>
                /\ (best # null /\ best = old)
                      => Len(notes) = 1 /\ notes[1].ev = "update" /\ notes[1].id = old]_vars

\* A resolve call that found no best takes leave of the lingering target.
C5_Witness ==
    \E p \in Slots :
       /\ Resolved(p)
       /\ ptr[p].highestRenderObject = null
       /\ Count(ResolveSegment(log), {"pointerOut"}) = 1
       /\ ptr[p].targetObject = null

\* ------------------------------------------------------------------- C6
\* The events of a log that are hit tests or hover changes.
Probing == {"resolve", "cheapTest", "exactTest", "pointerOver", "pointerOut"}

\* C6: while the target of a slot is assigned and being dragged, no press,
\* move, leave or update of the slot runs the resolver (no test, no
\* pointerOver, no pointerOut), and the target stays the dragged object
\* unless its own update returns false.
C6_DraggedBypassesResolver ==
    [][\A p \in Slots :
          LET t == ptr[p].targetObject
          IN (/\ t # null
              /\ draggedBy[t] # null
              /\ op'.p = p
              /\ op'.name \in {"start", "move", "leave", "update"})
             => /\ Count(log', Probing) = 0
                /\ \/ ptr'[p].targetObject = t
                   \/ \E i \in Positions(log', {"update"}) : log'[i].id = t /\ ~log'[i].flag]_vars

\* ------------------------------------------------------------------- C7
\* The hover changes of a log, in order.
Hovers(l) == SelectSeq(l, LAMBDA e : e.ev \in {"pointerOver", "pointerOut"})

\* C7: when the target is A, not dragged, and a move resolves B # A as the
\* best candidate, A gets pointerOut and then B gets pointerOver, once each,
\* no other candidate gets either, and the target is B after the move.
C7_OutThenOver ==
    [][\A p \in Slots :
          LET A == ptr[p].targetObject
              B == ptr'[p].highestRenderObject
          IN (/\ Did("move", p)'
              /\ Resolved(p)'
              /\ A # null
              /\ draggedBy[A] = null
              /\ B # null
              /\ B # A)
             => /\ Hovers(log') = <<Event("pointerOut", A, FALSE), Event("pointerOver", B, FALSE)>>
                /\ ptr'[p].targetObject = B]_vars

\* A move has taken the target from one candidate to another.
C7_Witness ==
    \E p \in Slots :
       /\ Did("move", p)
       /\ Len(Hovers(log)) = 2
       /\ Hovers(log)[1].ev = "pointerOut"
       /\ Hovers(log)[2].ev = "pointerOver"
       /\ Hovers(log)[1].id # Hovers(log)[2].id
       /\ ptr[p].targetObject = Hovers(log)[2].id


\* ------------------------------------------------------------------- C8
\* C8: reset, from any state, leaves the slot up, not down, inactive unless
\* it is the mouse, without a target, with no touches counted, not dirty,
\* the hold not sent and the history empty; a target that was assigned gets
\* exactly one released and no other candidate is notified.
C8_ResetLeavesSlotUp ==
    [][\A p \in Slots :
          Did("reset", p)' =>
             LET t == ptr[p].targetObject
                 notes == SelectSeq(log', IsNotification)
             IN /\ ptr'[p].isUp
                /\ ~ptr'[p].isDown
                /\ ~ptr[p].isMouse => ~ptr'[p].active
                /\ ptr'[p].targetObject = null
                /\ ptr'[p].totalTouches = 0
                /\ ~ptr'[p].dirty
                /\ ~ptr'[p].holdSent
                /\ ptr'[p].history = <<>>
                /\ notes = IF t # null THEN <<Event("released", t, FALSE)>> ELSE <<>>]_vars

\* A reset has released the target of a touch slot that was down.
C8_Witness ==
    \E p \in Slots :
       /\ Did("reset", p)
       /\ ~ptr[p].isMouse
       /\ Count(log, {"released"}) = 1
       /\ input.currentPointers > 0
       /\ ptr[p].isUp

\* ------------------------------------------------------------------- C9
\* C9: a release of a slot that was reset and not pressed since changes no
\* field of the slot nor the manager's counter, dispatches no up or tap
\* signal and notifies no candidate; any other release is processed: the
\* slot goes up at the current time and every candidate hears released.
C9_ReleaseAfterResetIgnored ==
    [][\A p \in Slots :
          Did("stop", p)' =>
             IF seen[p].afterReset
             THEN /\ ptr'[p] = ptr[p]
                  /\ input' = input
                  /\ draggedBy' = draggedBy
                  /\ Count(log', {"onUp", "onTap"} \cup Notifications) = 0
             ELSE /\ ptr'[p].timeUp = now
                  /\ ptr'[p].isUp
                  /\ ~ptr'[p].isDown
                  /\ Count(log', {"released"}) = Len(items)]_vars

\* A release has been ignored later than the slot last went up.
C9_Witness ==
    \E p \in Slots :
       /\ Did("stop", p)
       /\ seen[p].afterReset
       /\ Count(log, {"preventDefault"}) = 1
       /\ ptr[p].timeUp < now

\* ------------------------------------------------------------------ C10
\* C10: a processed release tells every registered candidate released
\* exactly once, target or not, emits no pointerOut, and leaves the slot
\* without a target.
C10_ReleaseBroadcast ==
    \A p \in Slots :
       (Did("stop", p) /\ Count(log, {"preventDefault"}) = 0)
       => /\ \A i \in 1..Len(items) : CountFor(log, {"released"}, items[i]) = 1
          /\ Count(log, {"released"}) = Len(items)
          /\ Count(log, {"pointerOut"}) = 0
          /\ ptr[p].targetObject = null

\* A processed release has told all three candidates of the scene.
C10_Witness ==
    \E p \in Slots :
       /\ Did("stop", p)
       /\ Count(log, {"preventDefault"}) = 0
       /\ Len(items) = 3
       /\ Count(log, {"released"}) = 3
       /\ ptr[p].targetObject = null

\* ------------------------------------------------------------------ C11
\* The non-mouse slots that are down.
TouchesDown == {p \in Slots : ~ptr[p].isMouse /\ ptr[p].isDown}

\* C11: after any sequence of calls the input manager's currentPointers is
\* the number of non-mouse slots that are down (so it is never negative, and
\* 0 when none is down).
C11_CounterCountsTouchesDown == input.currentPointers = Cardinality(TouchesDown)

\* ------------------------------------------------------------------ C12
\* C12: in every reachable state of every slot exactly one of isDown and
\* isUp is true.
C12_DownXorUp == \A p \in Slots : ptr[p].isDown # ptr[p].isUp

\* A move has been ignored, polling being locked, on a slot that is down.
C12_Witness ==
    \E p \in Slots :
       /\ Did("move", p)
       /\ pollLocked
       /\ ptr[p].isDown
       /\ ~ptr[p].isUp

\* ------------------------------------------------------------------ C13
\* C13: in every reachable state a non-mouse slot (id > 0) that is up is
\* not active.
C13_UpTouchInactive == \A p \in Slots : (ptr[p].id > 0 /\ ptr[p].isUp) => ~ptr[p].active

\* A processed release has left a touch slot that was pressed up and
\* inactive.
C13_Witness ==
    \E p \in Slots :
       /\ Did("stop", p)
       /\ Count(log, {"released"}) = Len(items)
       /\ ptr[p].id > 0
       /\ ptr[p].totalTouches > 0
       /\ ptr[p].isUp
       /\ ~ptr[p].active

\* ------------------------------------------------------------------ C14
\* C14: the history never holds more than recordLimit samples; an update
\* leaves it as it is (no sample is due: the schedule nextDrop stays) or
\* appends the current position, once, and when the append would exceed
\* recordLimit it is the oldest sample that goes, the others keeping their
\* order.
C14_HistoryIsBoundedFifo ==
    [][\A p \in Slots :
          LET h == ptr[p].history
              g == ptr'[p].history
              grown == Append(h, ptr[p].position)
          IN /\ Len(g) <= recordLimit
             /\ Did("update", p)' =>
                   IF ptr'[p].nextDrop = ptr[p].nextDrop
                   THEN g = h
                   ELSE g = IF Len(h) < recordLimit THEN grown ELSE Tail(grown)]_vars

\* An update has pushed out the oldest of two different samples.
C14_Witness ==
    \E p \in Slots :
       /\ Did("update", p)
       /\ Len(ptr[p].history) = recordLimit
       /\ ptr[p].nextDrop > recordLimit * recordRate
       /\ ptr[p].nextDrop = now + recordRate
       /\ ptr[p].history[1] # ptr[p].history[Len(ptr[p].history)]

\* ------------------------------------------------------------------ C15
\* The hold signals of slot p in a log.
HoldsOf(l, p) == {i \in Positions(l, {"onHold"}) : l[i].id = p}

\* C15: the first update of a slot that is down, for holdRate or longer,
\* with no hold signalled since its press, signals hold exactly once; an
\* update after that signals none until the slot is pressed again; no call
\* other than update signals hold, and none does while the slot is up.
C15_HoldOncePerPress ==
    [][\A p \in Slots :
          LET heard == Cardinality(HoldsOf(log', p))
              due == ptr[p].isDown /\ now - ptr[p].timeDown >= holdRate /\ ~seen[p].held
          IN /\ (Did("update", p)' /\ due) => heard = 1
             /\ ~(Did("update", p)' /\ due) => heard = 0]_vars

C17_DurationSincePress ==
    [][\A p \in Slots :
          /\ duration(ptr[p], now) = IF ptr[p].isDown THEN now - ptr[p].timeDown ELSE -1
          /\ duration(ptr'[p], now') = IF ptr'[p].isDown THEN now' - ptr'[p].timeDown ELSE -1
          /\ ptr'[p].timeDown = IF Did("start", p)' THEN now ELSE ptr[p].timeDown
          /\ (Did("stop", p)' /\ ~ptr[p].stateReset) => duration(ptr'[p], now') = -1
          /\ Did("reset", p)' => duration(ptr'[p], now') = -1
          /\ Did("start", p)' => duration(ptr'[p], now') = 0]_vars

\* A slot pressed after the clock started has been down for a while.
C17_Witness ==
    \E p \in Slots :
       /\ ptr[p].isDown
       /\ ptr[p].timeDown > 0
       /\ now > ptr[p].timeDown
       /\ duration(ptr[p], now) = now - ptr[p].timeDown

\* ------------------------------------------------------------------ C18
\* The fields of a slot that a move writes from the event it is given.
Coordinates(pt) ==
    <<pt.x, pt.y, pt.position, pt.circle, pt.clientX, pt.clientY, pt.pageX, pt.pageY,
      pt.screenX, pt.screenY, pt.rawMovementX, pt.rawMovementY, pt.movementX, pt.movementY>>

\* C18: a move, or a leave, made while polling is locked changes neither the
\* slot's position, raw coordinates, hit-probe circle and target nor the
\* input manager's active pointer and mirrored position, and it calls no
\* move observer, no candidate test and no notification; the move changes
\* nothing at all.
C18_LockedMoveIsNoOp ==
    [][\A p \in Slots :
          ((Did("move", p)' \/ Did("leave", p)') /\ pollLocked) =>
             /\ Coordinates(ptr'[p]) = Coordinates(ptr[p])
             /\ ptr'[p].targetObject = ptr[p].targetObject
             /\ input' = input
             /\ draggedBy' = draggedBy
             /\ checked' = checked
             /\ log' = <<>>
             /\ Did("move", p)' => ptr' = ptr]_vars

\* A move has been made on a slot that is down over its target while
\* polling is locked.
C18_Witness ==
    \E p \in Slots :
       /\ Did("move", p)
       /\ pollLocked
       /\ ~paused
       /\ ptr[p].isDown
       /\ ptr[p].targetObject # null
       /\ log = <<>>

\* ------------------------------------------------------------------ C19
\* C19: a move made while the game is paused, polling not being locked,
\* takes the event's position (the scene position of its page position, the
\* hit-probe circle on it, withinGame as the canvas holds the page
\* position) and calls no move observer, no candidate test and no
\* notification, the target staying what it was, dragged or not.
C19_PausedMoveOnlyTracks ==
    [][\A p \in Slots :
          (Did("move", p)' /\ paused /\ ~pollLocked) =>
             LET pt == ptr'[p]
             IN /\ pt.position = Scene(<<pt.pageX, pt.pageY>>)
                /\ pt.position = <<pt.x, pt.y>>
                /\ pt.circle = pt.position
                /\ pt.withinGame = boundsContains(pt.pageX, pt.pageY)
                /\ pt.targetObject = ptr[p].targetObject
                /\ draggedBy' = draggedBy
                /\ checked' = checked
                /\ log' = <<>>]_vars

\* A paused move has taken the slot away from the target it is dragging.
C19_Witness ==
    \E p \in Slots :
       /\ Did("move", p)
       /\ paused
       /\ ~pollLocked
       /\ ptr[p].targetObject # null
       /\ draggedBy[ptr[p].targetObject] = p
       /\ ptr[p].position \notin cand[ptr[p].targetObject].bounds
       /\ ~ptr[p].withinGame

\* ------------------------------------------------------------------ C20
\* What a move does to the target and the candidates.
Targeting == {"update", "resolve", "cheapTest", "exactTest", "pointerOver", "pointerOut"}

\* C20: a move that is neither locked nor paused (a press's and a leave's
\* move included) calls every registered move observer exactly once, the
\* last registered first, with the slot, its new x and y and fromClick (true
\* for the move of a press only), and calls them all before the dragged
\* target's update, before any candidate test and before any over or out
\* notification.
C20_ObserversFirstInReverse ==
    [][\A p \in Slots :
          (op'.p = p /\ op'.name \in {"start", "move", "leave"} /\ ~pollLocked /\ ~paused) =>
             LET calls == SelectSeq(log', LAMBDA e : e.ev = "moveCallback")
                 n == Len(moveCallbacks)
             IN /\ Len(calls) = n
                /\ \A i \in 1..n :
                      /\ calls[i].id = moveCallbacks[n - i + 1]
                      /\ calls[i].pointer = p
                      /\ calls[i].x = ptr'[p].x
                      /\ calls[i].y = ptr'[p].y
                      /\ calls[i].flag = (op'.name = "start")
                /\ \A i \in Positions(log', {"moveCallback"}) :
                      \A j \in Positions(log', Targeting) : i < j]_vars

\* A move has called both observers and then updated the dragged target.
C20_Witness ==
    \E p \in Slots :
       /\ Did("move", p)
       /\ Count(log, {"moveCallback"}) = 2
       /\ Count(log, {"update"}) = 1
       /\ Count(log, {"resolve"}) = 0
       /\ log[1].id # log[2].id

\* ------------------------------------------------------------------ C21
\* The hit tests of a resolve call.
Tests == {"cheapTest", "exactTest"}

\* C21: a resolve call runs to its end and tests every candidate at most
\* once: a candidate flagged checked was tested once, in pass 1 and by the
\* cheap test, whatever the test returned; a candidate that needs no exact
\* test and was not flagged (the floor rejected it in pass 1) is not tested
\* at all; a candidate that needs the exact test is never flagged and is
\* tested in pass 2 only, by the exact test.
C21_OneTestPerCandidate ==
    \A p \in Slots :
       Resolved(p) =>
          /\ Count(log, {"resolved"}) = 1
          /\ \A c \in Candidates :
                /\ CountFor(log, Tests, c) <= 1
                /\ checked[c] => (~cand[c].pixelPerfect /\ CountFor(log, {"cheapTest"}, c) = 1)
                /\ (~cand[c].pixelPerfect /\ ~checked[c]) => CountFor(log, Tests, c) = 0
                /\ cand[c].pixelPerfect => CountFor(log, {"cheapTest"}, c) = 0

\* One resolve call has tested a candidate in pass 1 and missed it, tested
\* another in pass 2, and left a third, which the pointer is over, untested.
C21_Witness ==
    \E p \in Slots :
       /\ Resolved(p)
       /\ \E c \in Candidates :
             checked[c] /\ ptr[p].position \notin cand[c].bounds
       /\ \E c \in Candidates : CountFor(log, {"exactTest"}, c) = 1
       /\ \E c \in Candidates :
             ptr[p].position \in cand[c].bounds /\ CountFor(log, Tests, c) = 0

\* ------------------------------------------------------------------ C22
\* What a press's move tells the candidates before the press touches one.
Hovering == {"pointerOut", "pointerOver", "update"}

RECURSIVE HoverAfter(_, _, _)
HoverAfter(l, i, h) ==
    IF i > Len(l) THEN h
    ELSE LET e == l[i]
             h1 == IF e.ev = "pointerOver"
                   THEN [on |-> h.on \cup {e.id}, ok |-> h.ok /\ h.on = {}]
                   ELSE IF e.ev \in {"pointerOut", "released"} \/ (e.ev = "update" /\ ~e.flag)
                        THEN [on |-> h.on \ {e.id}, ok |-> h.ok]
                        ELSE h
         IN HoverAfter(l, i + 1, h1)

\* The candidates slot p hovers if its target is the one it hovers.
TargetOnly(pt) == {pt.targetObject} \ {null}

\* C23: the candidates a slot hovers are its target and no other: in every
\* call, starting from the target alone being hovered, each pointerOver
\* comes when the candidate hovered before has had its pointerOut, its
\* released or the false return of its update, and the call ends with the
\* target alone being hovered.
C23_HoverIsTheTarget ==
    [][\A p \in Slots :
          op'.p = p =>
             LET h == HoverAfter(log', 1, [on |-> TargetOnly(ptr[p]), ok |-> TRUE])
             IN /\ h.ok
                /\ h.on = TargetOnly(ptr'[p])]_vars

\* A leave has taken the slot from the candidate it hovered to no candidate.
C23_Witness ==
    \E p \in Slots :
       /\ Did("leave", p)
       /\ Count(log, {"pointerOut"}) = 1
       /\ Count(log, {"pointerOver"}) = 0
       /\ ptr[p].targetObject = null
       /\ Hits(p) = {}

\* ------------------------------------------------------------------ C24
\* C24: a tap signal says double only if an earlier release of the same
\* slot gave a tap signal less than doubleTapRate before it; so the first
\* tap signal of a slot says single, whatever the time is.
C24_DoubleNeedsEarlierTap ==
    [][\A p \in Slots :
          \A i \in TapsOf(log', p) :
             log'[i].flag => (seen[p].lastTap # null /\ now - seen[p].lastTap < doubleTapRate)]_vars

====
